---- MODULE Spec2Model ----
(***************************************************************************)
(* RPoke (src/src/main.rs): a concurrent TCP port scanner.                 *)
(*                                                                         *)
(* main parses its arguments and calls scan_ports, which collects the      *)
(* inclusive port range into a Vec, maps every port to a spawned scan_port *)
(* task and drives the JoinHandles through buffer_unordered(num_threads).  *)
(* scan_port connects under a timeout, writes the probe of the port, reads *)
(* once into a zeroed 1024 byte buffer, decodes the whole buffer and       *)
(* dispatches on the port to one of the *_service_detection matchers.      *)
(*                                                                         *)
(* Bytes and characters are integers; a byte string or a str is a sequence *)
(* of them.  Option<T> is a sequence of length 0 (None) or 1 (Some).       *)
(***************************************************************************)
EXTENDS Integers, Sequences, FiniteSets, TLC

(***************************************************************************)
(* Bounds of the model.                                                    *)
(***************************************************************************)
\* the largest number of ports of a scanned window
MaxRange == 2
\* the largest concurrency cap (--threads) tried
MaxCap == 2

(***************************************************************************)
(* Program constants.                                                      *)
(***************************************************************************)
\* u16: the type of start_port, end_port and total_ports
U16 == 65536
\* let mut buffer = [0; 1024];
BufSize == 1024
\* U+FFFD, the replacement character of String::from_utf8_lossy
Replacement == 65533

Ports == 0 .. (U16 - 1)

None == << >>
Some(v) == << v >>

(***************************************************************************)
(* Text literals of the source, as code points.                            *)
(***************************************************************************)
\* "220"
S220 == <<50, 50, 48>>
\* "FTP"
SFTP == <<70, 84, 80>>
\* "SSH"
SSSH == <<83, 83, 72>>
\* "SMTP"
SSMTP == <<83, 77, 84, 80>>
\* "SMTPS"
SSMTPS == <<83, 77, 84, 80, 83>>
\* "HTTP"
SHTTP == <<72, 84, 84, 80>>
\* "Apache"
SApache == <<65, 112, 97, 99, 104, 101>>
\* "nginx"
Snginx == <<110, 103, 105, 110, 120>>
\* "+OK"
SPlusOK == <<43, 79, 75>>
\* "POP3"
SPOP3 == <<80, 79, 80, 51>>
\* "* OK"
SStarOK == <<42, 32, 79, 75>>
\* "IMAP"
SIMAP == <<73, 77, 65, 80>>
\* "SSL"
SSSL == <<83, 83, 76>>
\* "+PONG"
SPONG == <<43, 80, 79, 78, 71>>
\* "RFB "
SRFB == <<82, 70, 66, 32>>
\* "\x00\x00"
SDnsPrefix == <<0, 0>>
\* "\x00\x00\x00\x00"
SPptpPrefix == <<0, 0, 0, 0>>
\* "\x0a\x00\x00\x01"
SMysqlPrefix == <<10, 0, 0, 1>>
\* "\x03\x00\x00\x13"
SRdpPrefix == <<3, 0, 0, 19>>
\* "\x00\x00\x00\x08"
SPgPrefix == <<0, 0, 0, 8>>

(***************************************************************************)
(* str::contains and str::starts_with.                                     *)
(***************************************************************************)
StartsWith(s, pat) ==
    /\ Len(pat) <= Len(s)
    /\ \A j \in 1 .. Len(pat) : s[j] = pat[j]

Contains(s, pat) ==
    \E i \in 0 .. (Len(s) - Len(pat)) :
        \A j \in 1 .. Len(pat) : s[i + j] = pat[j]

(***************************************************************************)
(* The regex crate on the patterns of the source.  A pattern is a sequence *)
(* of items, each a character class taken once or (plus) one or more       *)
(* times, greedily and with backtracking; the match reported is the        *)
(* leftmost one.                                                           *)
(***************************************************************************)
Digit == 48 .. 57
DigitDot == Digit \cup {46}
Word == Digit \cup (65 .. 90) \cup (97 .. 122) \cup {95}
WordDotDash == Word \cup {46, 45}

One(c) == [set |-> {c}, plus |-> FALSE]
Plus(S) == [set |-> S, plus |-> TRUE]
Lit(str) == [i \in 1 .. Len(str) |-> One(str[i])]

\* r"[\d.]+"
PatDecimalDot == << Plus(DigitDot) >>
\* r"SSH-\d+\.\d+-[\w.-]+"
PatSsh == Lit(<<83, 83, 72, 45>>) \o << Plus(Digit), One(46), Plus(Digit), One(45), Plus(WordDotDash) >>
\* r"Apache/[\d.]+"
PatApache == Lit(<<65, 112, 97, 99, 104, 101, 47>>) \o << Plus(DigitDot) >>
\* r"nginx/[\d.]+"
PatNginx == Lit(<<110, 103, 105, 110, 120, 47>>) \o << Plus(DigitDot) >>
\* r"IMAP\d+[\w.-]+"
PatImap == Lit(<<73, 77, 65, 80>>) \o << Plus(Digit), Plus(WordDotDash) >>
\* r"\d+\.\d+\.\d+"
PatXYZ == << Plus(Digit), One(46), Plus(Digit), One(46), Plus(Digit) >>
\* r"\d+\.\d+"
PatXY == << Plus(Digit), One(46), Plus(Digit) >>

RECURSIVE RunLen(_, _, _)
\* the length of the longest run of characters of S in s from position pos
RunLen(s, S, pos) ==
    IF pos > Len(s) \/ s[pos] \notin S THEN 0 ELSE 1 + RunLen(s, S, pos + 1)

RECURSIVE MatchFrom(_, _, _, _)
\* the position after the match of items k.. of pat at pos, or 0 for no match
MatchFrom(s, pat, k, pos) ==
    IF k > Len(pat) THEN pos
    ELSE IF pos > Len(s) \/ s[pos] \notin pat[k].set THEN 0
    ELSE IF ~pat[k].plus THEN MatchFrom(s, pat, k + 1, pos + 1)
    ELSE LET run == RunLen(s, pat[k].set, pos)
             ok == {n \in 1 .. run : MatchFrom(s, pat, k + 1, pos + n) # 0}
             best == CHOOSE n \in ok : \A m \in ok : m <= n
         IN  IF ok = {} THEN 0 ELSE MatchFrom(s, pat, k + 1, pos + best)

\* the start Regex::captures reports: the leftmost position with a match
FirstMatchStart(starts) == CHOOSE p \in starts : \A q \in starts : p <= q

\* extract_version(response, pattern)
extract_version(response, pat) ==
    LET starts == {p \in 1 .. Len(response) : MatchFrom(response, pat, 1, p) # 0}
        from == FirstMatchStart(starts)
    IN  IF starts = {} THEN None
        ELSE Some(SubSeq(response, from, MatchFrom(response, pat, 1, from) - 1))

(***************************************************************************)
(* The matchers.                                                           *)
(***************************************************************************)
Unknown == <<"Unknown", None>>

ftp_service_detection(r) ==
    IF Contains(r, S220) /\ Contains(r, SFTP)
    THEN <<"FTP", extract_version(r, PatDecimalDot)>> ELSE Unknown

ssh_service_detection(r) ==
    IF Contains(r, SSSH) THEN <<"SSH", extract_version(r, PatSsh)>> ELSE Unknown

smtp_service_detection(r) ==
    IF Contains(r, S220) /\ Contains(r, SSMTP)
    THEN <<"SMTP", extract_version(r, PatDecimalDot)>> ELSE Unknown

dns_service_detection(r) ==
    IF StartsWith(r, SDnsPrefix) THEN <<"DNS", None>> ELSE Unknown

http_service_detection(r) ==
    IF Contains(r, SHTTP)
    THEN IF Contains(r, SApache) THEN <<"Apache HTTP", extract_version(r, PatApache)>>
         ELSE IF Contains(r, Snginx) THEN <<"nginx", extract_version(r, PatNginx)>>
         ELSE <<"HTTP", None>>
    ELSE Unknown

pop3_service_detection(r) ==
    IF Contains(r, SPlusOK) /\ Contains(r, SPOP3)
    THEN <<"POP3", extract_version(r, PatDecimalDot)>> ELSE Unknown

imap_service_detection(r) ==
    IF Contains(r, SStarOK) /\ Contains(r, SIMAP)
    THEN <<"IMAP", extract_version(r, PatImap)>> ELSE Unknown

https_service_detection(r) ==
    IF Contains(r, SHTTP) /\ Contains(r, SSSL)
    THEN IF Contains(r, SApache) THEN <<"Apache HTTPS", extract_version(r, PatApache)>>
         ELSE IF Contains(r, Snginx) THEN <<"nginx (SSL)", extract_version(r, PatNginx)>>
         ELSE <<"HTTPS", None>>
    ELSE Unknown

smtps_service_detection(r) ==
    IF Contains(r, S220) /\ Contains(r, SSMTPS)
    THEN <<"SMTPS", extract_version(r, PatDecimalDot)>> ELSE Unknown

imaps_service_detection(r) ==
    IF Contains(r, SStarOK) /\ Contains(r, SIMAP) /\ Contains(r, SSSL)
    THEN <<"IMAPS", extract_version(r, PatImap)>> ELSE Unknown

pop3s_service_detection(r) ==
    IF Contains(r, SPlusOK) /\ Contains(r, SPOP3) /\ Contains(r, SSSL)
    THEN <<"POP3S", extract_version(r, PatDecimalDot)>> ELSE Unknown

pptp_service_detection(r) ==
    IF StartsWith(r, SPptpPrefix) THEN <<"PPTP", None>> ELSE Unknown

mysql_service_detection(r) ==
    IF StartsWith(r, SMysqlPrefix)
    THEN <<"MySQL", extract_version(r, PatXYZ)>> ELSE Unknown

rdp_service_detection(r) ==
    IF StartsWith(r, SRdpPrefix) THEN <<"RDP", None>> ELSE Unknown

postgres_service_detection(r) ==
    IF StartsWith(r, SPgPrefix)
    THEN <<"PostgreSQL", extract_version(r, PatXY)>> ELSE Unknown

vnc_service_detection(r) ==
    IF StartsWith(r, SRFB) THEN <<"VNC", extract_version(r, PatXY)>> ELSE Unknown

redis_service_detection(r) ==
    IF Contains(r, SPONG) THEN <<"Redis", None>> ELSE Unknown

(***************************************************************************)
(* scan_port: the probe of a port, the decoding of the buffer and the      *)
(* dispatch to the matcher of the port.                                    *)
(***************************************************************************)
\* b"QUIT\r\n"
ProbeQuit == <<81, 85, 73, 84, 13, 10>>
\* b"GET / HTTP/1.1\r\nHost: example.com\r\n\r\n"
ProbeHttp == <<71, 69, 84, 32, 47, 32, 72, 84, 84, 80, 47, 49, 46, 49, 13, 10, 72, 111, 115, 116, 58, 32, 101, 120, 97, 109, 112, 108, 101, 46, 99, 111, 109, 13, 10, 13, 10>>
\* b"a1 LOGOUT\r\n"
ProbeLogout == <<97, 49, 32, 76, 79, 71, 79, 85, 84, 13, 10>>

\* the or-patterns of the probe match: 80 | 8080, 443 | 8443, 5900 | 5901
http_probe_ports == {80, 8080}
https_probe_ports == {443, 8443}
vnc_probe_ports == {5900, 5901}

\* let service_probe = match target.port() { ... }
service_probe(port) ==
    CASE port = 21 -> ProbeQuit
      [] port = 22 -> <<83, 83, 72, 45, 50, 46, 48, 45, 79, 112, 101, 110, 83, 83, 72, 95, 55, 46, 52, 112, 49, 32, 68, 101, 98, 105, 97, 110, 45, 49, 48, 43, 100, 101, 98, 57, 117, 55, 13, 10>>
      [] port = 25 -> <<72, 69, 76, 79, 32, 101, 120, 97, 109, 112, 108, 101, 46, 99, 111, 109, 13, 10>>
      [] port = 53 -> <<0, 0, 16, 0, 0, 0, 0, 0, 0, 0, 0, 0>>
      [] port \in http_probe_ports -> ProbeHttp
      [] port = 110 -> ProbeQuit
      [] port = 143 -> ProbeLogout
      [] port \in https_probe_ports -> ProbeHttp
      [] port = 465 -> ProbeQuit
      [] port = 993 -> ProbeLogout
      [] port = 995 -> ProbeQuit
      [] port = 1723 -> <<0, 0, 0, 0, 0, 0, 0, 0>>
      [] port = 3306 -> <<10, 0, 0, 1, 133, 166, 3, 0, 0, 0, 0, 1, 8, 0, 0, 0, 0, 0, 0, 0, 0, 0, 0, 0, 0, 0, 0, 0, 0, 0, 0, 0>>
      [] port = 3389 -> <<3, 0, 0, 19, 14, 224, 0, 0, 0, 0, 0, 1, 0, 8, 0, 3, 0, 0, 0>>
      [] port = 5432 -> <<0, 0, 0, 8, 4, 210, 22, 47>>
      [] port \in vnc_probe_ports -> <<82, 70, 66, 32, 48, 48, 51, 46, 48, 48, 56, 10>>
      [] port = 6379 -> <<80, 73, 78, 71, 13, 10>>
      [] OTHER -> << >>

\* the or-patterns of the matcher match: 80 | 8080, 443 | 8443, 5900 | 5901
http_matcher_ports == {80, 8080}

\* the arm of 8443 forgotten
https_matcher_ports_short == {443}

https_matcher_ports == {443, 8443}
vnc_matcher_ports == {5900, 5901}

\* the arm of the second match target.port(): the matcher of the port
matcher(port) ==
    CASE port = 21 -> "ftp"
      [] port = 22 -> "ssh"
      [] port = 25 -> "smtp"
      [] port = 53 -> "dns"
      [] port \in http_matcher_ports -> "http"
      [] port = 110 -> "pop3"
      [] port = 143 -> "imap"
      [] port \in https_matcher_ports -> "https"
      [] port = 465 -> "smtps"
      [] port = 993 -> "imaps"
      [] port = 995 -> "pop3s"
      [] port = 1723 -> "pptp"
      [] port = 3306 -> "mysql"
      [] port = 3389 -> "rdp"
      [] port = 5432 -> "postgres"
      [] port \in vnc_matcher_ports -> "vnc"
      [] port = 6379 -> "redis"
      [] OTHER -> "none"

\* let (service, version) = match target.port() { ... }
detect(port, response) ==
    LET m == matcher(port)
    IN  CASE m = "ftp" -> ftp_service_detection(response)
          [] m = "ssh" -> ssh_service_detection(response)
          [] m = "smtp" -> smtp_service_detection(response)
          [] m = "dns" -> dns_service_detection(response)
          [] m = "http" -> http_service_detection(response)
          [] m = "pop3" -> pop3_service_detection(response)
          [] m = "imap" -> imap_service_detection(response)
          [] m = "https" -> https_service_detection(response)
          [] m = "smtps" -> smtps_service_detection(response)
          [] m = "imaps" -> imaps_service_detection(response)
          [] m = "pop3s" -> pop3s_service_detection(response)
          [] m = "pptp" -> pptp_service_detection(response)
          [] m = "mysql" -> mysql_service_detection(response)
          [] m = "rdp" -> rdp_service_detection(response)
          [] m = "postgres" -> postgres_service_detection(response)
          [] m = "vnc" -> vnc_service_detection(response)
          [] m = "redis" -> redis_service_detection(response)
          [] OTHER -> Unknown

\* let mut buffer = [0; 1024]; stream.read(&mut buffer): the read fills the
\* first bytes of the buffer with what it received and leaves the rest
buffer_after_read(data) ==
    LET buffer == [i \in 1 .. BufSize |-> IF i <= Len(data) THEN data[i] ELSE 0]
    IN  SubSeq(buffer, 1, BufSize)

\* String::from_utf8_lossy(&buffer) on the bytes the model's peer sends: an
\* ASCII byte is its own character and a byte that starts no well-formed
\* sequence (0xff here) becomes U+FFFD
from_utf8_lossy(bytes) ==
    LET chars == [i \in 1 .. Len(bytes) |-> IF bytes[i] < 128 THEN bytes[i] ELSE Replacement]
    IN  SubSeq(chars, 1, Len(bytes))

\* what scan_port makes of the bytes one read received
classify(port, data) == detect(port, from_utf8_lossy(buffer_after_read(data)))

\* Some(ScanResult { .. })
ScanResult(port, sv) ==
    [target |-> "target", port |-> port, status |-> "open",
     service |-> Some(sv[1]), version |-> sv[2]]

(***************************************************************************)
(* The environment: the ports tried and what the peer may send.            *)
(***************************************************************************)
\* the ports with an arm in the two matches of scan_port
TablePorts ==
    {21, 22, 25, 53, 80, 8080, 110, 143, 443, 8443, 465, 993, 995,
     1723, 3306, 3389, 5432, 5900, 5901, 6379}

\* the start ports of the scans of several ports
WindowStarts == {20}

\* the ports a scan starts at
StartPorts == TablePorts \cup WindowStarts \cup {0, 9999, U16 - 1}

\* "220 FTP Server ready 3.4.1\r\n"
FtpBanner == <<50, 50, 48, 32, 70, 84, 80, 32, 83, 101, 114, 118, 101, 114, 32, 114, 101, 97, 100, 121, 32, 51, 46, 52, 46, 49, 13, 10>>
\* "+PONG\r\n"
PongBanner == <<43, 80, 79, 78, 71, 13, 10>>
\* "\x0a\x00\x00\x01" "5.7.32"
MysqlBanner == <<10, 0, 0, 1, 53, 46, 55, 46, 51, 50>>
\* "HTTP/1.1 200 OK SSL\r\nServer: nginx/1.18.0\r\n" with a stray 0xff
NginxBanner == <<72, 84, 84, 80, 47, 49, 46, 49, 32, 50, 48, 48, 32, 79, 75, 32, 83, 83, 76, 13, 10, 83, 101, 114, 118, 101, 114, 58, 32, 110, 103, 105, 110, 120, 47, 49, 46, 49, 56, 46, 48, 13, 10, 255>>

\* what a peer may send after the connection is up
Banners == {FtpBanner, PongBanner, MysqlBanner, NginxBanner}

(***************************************************************************)
(* The state.                                                              *)
(***************************************************************************)
VARIABLES
    start_port,     \* main: --start-port
    end_port,       \* main: --end-port
    num_threads,    \* main: --threads
    pc,             \* where main and scan_ports are
    ports_len,      \* scan_ports: ports.len()
    total_ports,    \* scan_ports: ports.len() as u16
    yielded,        \* how many ports stream::iter(ports) has yielded
    stream_done,    \* buffer_unordered: the Fuse around the stream is done
    queue,          \* buffer_unordered: the ports of the JoinHandles in in_progress_queue
    task,           \* the spawned scan_port tasks, by port
    ops,            \* the network operations each task has issued, in order
    results,        \* the Vec<ScanResult> collect() builds
    printed_total,  \* "Scanned {} ports in total."
    printed_summary \* "Scanned {} ports in {:.2} seconds!"

vars == <<start_port, end_port, num_threads, pc, ports_len, total_ports, yielded,
          stream_done, queue, task, ops, results, printed_total, printed_summary>>

inputs == <<start_port, end_port, num_threads>>

\* the ports (start_port..=end_port)
Range == start_port .. end_port

\* the number of ports of the range, as a mathematical integer
RangeSize == IF start_port <= end_port THEN end_port - start_port + 1 ELSE 0

\* the tasks that were spawned and have not completed
InFlight == {p \in DOMAIN task : task[p].pc # "done"}

Start ==
    /\ pc = "start"
    /\ ports_len = 0
    /\ total_ports = 0
    /\ yielded = 0
    /\ stream_done = FALSE
    /\ queue = {}
    /\ task = << >>
    /\ ops = << >>
    /\ results = << >>
    /\ printed_total = None
    /\ printed_summary = None

\* the end ports tried with a start port: up to MaxRange ports behind it, the
\* port itself, and up to MaxRange ports from a port of WindowStarts
EndPorts(s) ==
    {e \in Ports : /\ s - MaxRange <= e
                   /\ e <= s + (IF s \in WindowStarts THEN MaxRange - 1 ELSE 0)}

Init ==
    /\ start_port \in StartPorts
    /\ end_port \in EndPorts(start_port)
    /\ num_threads \in 0 .. MaxCap
    /\ Start

(***************************************************************************)
(* scan_ports.                                                             *)
(***************************************************************************)
\* ports.len() as u16
as_u16(n) == n % U16

\* let ports: Vec<u16> = (start_port..=end_port).collect();
\* let total_ports = ports.len() as u16;
ScanPortsEnter ==
    /\ pc = "start"
    /\ ports_len' = RangeSize
    /\ total_ports' = as_u16(RangeSize)
    /\ pc' = "stream"
    /\ UNCHANGED <<inputs, yielded, stream_done, queue, task, ops, results,
                   printed_total, printed_summary>>

\* the fill loop off by one
CanFillOneMore(len, max) == len <= max

\* BufferUnordered::poll_next: while this.in_progress_queue.len() < *this.max
CanFill(len, max) == len < max

\* the fill loop of poll_next pulls the stream
Filling == CanFill(Cardinality(queue), num_threads) /\ ~stream_done

\* the fill loop: the stream yields the next port, the map closures make its
\* SocketAddr and tokio::spawn(scan_port(addr, timeout_ms)), and the
\* JoinHandle is pushed on the in_progress_queue
Spawn ==
    /\ pc = "stream"
    /\ Filling
    /\ yielded < ports_len
    /\ LET port == start_port + yielded
       IN  /\ task' = [p \in DOMAIN task \cup {port} |->
                          IF p = port
                          THEN [pc |-> "spawned", connected |-> FALSE, probe |-> None,
                                write_ok |-> None, read_ok |-> None,
                                data |-> << >>, out |-> None]
                          ELSE task[p]]
           /\ ops' = [p \in DOMAIN ops \cup {port} |->
                          IF p = port THEN << >> ELSE ops[p]]
           /\ queue' = queue \cup {port}
    /\ yielded' = yielded + 1
    /\ UNCHANGED <<inputs, pc, ports_len, total_ports, stream_done, results,
                   printed_total, printed_summary>>

\* the fill loop: the stream returns None and the Fuse records it
StreamEnd ==
    /\ pc = "stream"
    /\ Filling
    /\ yielded = ports_len
    /\ stream_done' = TRUE
    /\ UNCHANGED <<inputs, pc, ports_len, total_ports, yielded, queue, task, ops,
                   results, printed_total, printed_summary>>

\* .filter_map(|res| async { res.unwrap_or(None) }): what collect() is given.
\* scan_port has no panicking path (its patterns compile), so res is Ok(out).
filter_map(out) == IF out = None THEN << >> ELSE << out[1] >>

\* after the fill loop: a JoinHandle of the in_progress_queue is ready; its
\* output goes through filter_map into the collected Vec
Harvest(p) ==
    /\ pc = "stream"
    /\ ~Filling
    /\ p \in queue
    /\ task[p].pc = "done"
    /\ queue' = queue \ {p}
    /\ results' = results \o filter_map(task[p].out)
    /\ UNCHANGED <<inputs, pc, ports_len, total_ports, yielded, stream_done, task,
                   ops, printed_total, printed_summary>>

\* the in_progress_queue is empty and the stream is done: poll_next returns
\* Ready(None), collect() completes, scan_ports prints the count and returns
Finish ==
    /\ pc = "stream"
    /\ ~Filling
    /\ queue = {}
    /\ stream_done
    /\ printed_total' = Some(total_ports)
    /\ pc' = "returned"
    /\ UNCHANGED <<inputs, ports_len, total_ports, yielded, stream_done, queue,
                   task, ops, results, printed_summary>>

(***************************************************************************)
(* scan_port, one task per port.                                           *)
(***************************************************************************)
Step(p, rec, op) ==
    /\ task' = [task EXCEPT ![p] = rec]
    /\ ops' = [ops EXCEPT ![p] = @ \o op]
    /\ UNCHANGED <<inputs, pc, ports_len, total_ports, yielded, stream_done,
                   queue, results, printed_total, printed_summary>>

\* the first poll of the task: timeout(.., AsyncTcpStream::connect(target))
StartConnect(p) ==
    /\ p \in DOMAIN task
    /\ task[p].pc = "spawned"
    /\ Step(p, [task[p] EXCEPT !.pc = "connecting"], <<"connect">>)

\* Ok(Ok(mut stream)): the probe is looked up and stream.write is issued
ConnectOk(p) ==
    /\ p \in DOMAIN task
    /\ task[p].pc = "connecting"
    /\ Step(p, [task[p] EXCEPT !.pc = "writing", !.connected = TRUE,
                               !.probe = Some(service_probe(p))], <<"write">>)

\* a failed connect reported as a closed port
connect_failed_closed(port) ==
    Some([target |-> "target", port |-> port, status |-> "closed",
          service |-> None, version |-> None])

\* what the arm _ => None returns
connect_failed(port) == None

\* Ok(Err(_)): the connect is refused or the host is unreachable
ConnectErr(p) ==
    /\ p \in DOMAIN task
    /\ task[p].pc = "connecting"
    /\ task' = [task EXCEPT ![p] = [@ EXCEPT !.pc = "done", !.out = connect_failed(p)]]
    /\ UNCHANGED <<inputs, pc, ports_len, total_ports, yielded, stream_done,
                   queue, ops, results, printed_total, printed_summary>>

\* Err(Elapsed): timeout_duration passed before the connect resolved
ConnectTimeout(p) ==
    /\ p \in DOMAIN task
    /\ task[p].pc = "connecting"
    /\ task' = [task EXCEPT ![p] = [@ EXCEPT !.pc = "done", !.out = connect_failed(p)]]
    /\ UNCHANGED <<inputs, pc, ports_len, total_ports, yielded, stream_done,
                   queue, ops, results, printed_total, printed_summary>>

\* the task gives up when the write fails
after_write_or_give_up(ok) == IF ok THEN "reading" ELSE "done"

\* let _ = stream.write(&service_probe).await; the result is dropped
after_write(ok) == "reading"

\* stream.write returns Ok or Err; stream.read(&mut buffer) is issued next
WriteReturn(p) ==
    /\ p \in DOMAIN task
    /\ task[p].pc = "writing"
    /\ \E ok \in BOOLEAN :
          Step(p, [task[p] EXCEPT !.pc = after_write(ok), !.write_ok = Some(ok)],
               IF after_write(ok) = "reading" THEN <<"read">> ELSE << >>)

\* let _ = stream.read(&mut buffer).await returns: Err(_) (ok false, nothing
\* received), Ok(0) at end of stream, or Ok(n) with the bytes of a banner; the
\* task then decodes, dispatches and completes with Some(ScanResult)
ReadReturn(p) ==
    /\ p \in DOMAIN task
    /\ task[p].pc = "reading"
    /\ \E ok \in BOOLEAN :
       \E data \in (IF ok THEN Banners \cup {<< >>} ELSE {<< >>}) :
          /\ task' = [task EXCEPT ![p] =
                         [@ EXCEPT !.pc = "done", !.read_ok = Some(ok), !.data = data,
                                   !.out = Some(ScanResult(p, classify(p, data)))]]
          /\ ops' = [ops EXCEPT ![p] = @ \o <<"dispatch", "result">>]
    /\ UNCHANGED <<inputs, pc, ports_len, total_ports, yielded, stream_done,
                   queue, results, printed_total, printed_summary>>

(***************************************************************************)
(* main, after scan_ports has returned.                                    *)
(***************************************************************************)
\* u16 arithmetic without overflow checks (release profile): wrapping
wrapping(n) == n % U16

\* u16 arithmetic: does a - b + 1 leave 0..65535 at the subtraction or the addition
overflows(a, b) == a - b < 0 \/ a - b + 1 >= U16

\* let total_ports = end_port - start_port + 1; print_results; println!.
\* With overflow checks (debug profile) an overflow panics, without them the
\* value wraps; which profile the binary was built with is not the program's choice.
MainSummary ==
    /\ pc = "returned"
    /\ \E overflow_checks \in BOOLEAN :
          IF overflows(end_port, start_port) /\ overflow_checks
          THEN /\ pc' = "panicked"
               /\ UNCHANGED printed_summary
          ELSE /\ pc' = "exit"
               /\ printed_summary' = Some(wrapping(wrapping(end_port - start_port) + 1))
    /\ UNCHANGED <<inputs, ports_len, total_ports, yielded, stream_done, queue,
                   task, ops, results, printed_total>>

Next ==
    \/ ScanPortsEnter
    \/ Spawn
    \/ StreamEnd
    \/ \E p \in Range : Harvest(p)
    \/ Finish
    \/ \E p \in Range : StartConnect(p)
    \/ \E p \in Range : ConnectOk(p)
    \/ \E p \in Range : ConnectErr(p)
    \/ \E p \in Range : ConnectTimeout(p)
    \/ \E p \in Range : WriteReturn(p)
    \/ \E p \in Range : ReadReturn(p)
    \/ MainSummary

Spec == Init /\ [][Next]_vars

(***************************************************************************)
(* The same program under the scheduling tokio and the timer guarantee: a  *)
(* ready task is polled, a pending write of a short probe returns and the  *)
(* timeout around the connect fires.  What the peer does (accepting or     *)
(* refusing the connection, sending data, closing) is not the program's to *)
(* schedule and gets no fairness.                                          *)
(***************************************************************************)
Fairness ==
    /\ WF_vars(ScanPortsEnter)
    /\ WF_vars(Spawn)
    /\ WF_vars(StreamEnd)
    /\ WF_vars(\E p \in Range : Harvest(p))
    /\ WF_vars(Finish)
    /\ WF_vars(MainSummary)
    /\ WF_vars(\E p \in Range : StartConnect(p))
    /\ WF_vars(\E p \in Range : ConnectTimeout(p))
    /\ WF_vars(\E p \in Range : WriteReturn(p))

SpecFair == Spec /\ Fairness

(***************************************************************************)
(* The counts of main and scan_ports over ranges of any size, against a    *)
(* target that refuses every connection.                                   *)
(***************************************************************************)
\* start and end ports at the edges of u16 and in between
EdgePorts == {0, 1, 2, 21, 1024, 32767, 32768, U16 - 2, U16 - 1}

InitCount ==
    /\ start_port \in EdgePorts
    /\ end_port \in EdgePorts
    /\ num_threads \in 1 .. MaxCap
    /\ Start

\* the stream of scan_ports run to its end when every connect is refused:
\* every port is yielded and spawned, every task returns None, every
\* JoinHandle is taken off the queue and filter_map drops its output
ScanAllRefused ==
    /\ pc = "stream"
    /\ Filling
    /\ yielded = 0
    /\ yielded' = ports_len
    /\ stream_done' = TRUE
    /\ UNCHANGED <<inputs, pc, ports_len, total_ports, queue, task, ops, results,
                   printed_total, printed_summary>>

NextCount ==
    \/ ScanPortsEnter
    \/ ScanAllRefused
    \/ Finish
    \/ MainSummary

SpecCount == InitCount /\ [][NextCount]_vars

(***************************************************************************)
(* Properties.                                                             *)
(***************************************************************************)
Returned == pc \in {"returned", "exit", "panicked"}

PortsOf(rs) == {rs[i].port : i \in 1 .. Len(rs)}

\* C1: with a cap of at least 1, the number of scan_port tasks that were
\* spawned and have not completed never exceeds the cap (num_threads).
C1_CapRespected ==
    num_threads >= 1 => Cardinality(InFlight) <= num_threads

\* C1 witness: the cap is reached while ports are still waiting to be spawned
C1_CapReached ==
    /\ num_threads >= 1
    /\ Cardinality(InFlight) = num_threads
    /\ pc = "stream"
    /\ yielded < ports_len

\* C2: when scan_ports has returned, the results hold exactly one record for
\* each port of the range whose connect succeeded and none for any other
\* port, whatever the write and the read did; every record has status
\* "open" and a port of the range.
C2_ResultsExact ==
    Returned =>
        /\ \A i \in 1 .. Len(results) :
              results[i].port \in Range /\ results[i].status = "open"
        /\ \A p \in Range :
              Cardinality({i \in 1 .. Len(results) : results[i].port = p})
                  = (IF p \in DOMAIN task /\ task[p].connected THEN 1 ELSE 0)

\* C2 witness: scan_ports has returned from a range with a port whose connect
\* failed and a port whose connect succeeded but whose write and read failed
C2_OpenAndClosed ==
    /\ pc = "returned"
    /\ \E p, q \in DOMAIN task :
          /\ ~task[p].connected
          /\ task[q].connected
          /\ task[q].write_ok = Some(FALSE)
          /\ task[q].read_ok = Some(FALSE)
          /\ PortsOf(results) = {q}

\* C3: a task whose read failed or received no byte reports service
\* "Unknown" and no version, whatever the port.
C3_EmptyReadUnknown ==
    \A p \in DOMAIN task :
        (task[p].pc = "done" /\ task[p].connected /\ task[p].data = << >>)
            => task[p].out = Some(ScanResult(p, Unknown))

\* C4: under fair scheduling and with a cap of at least 1, scan_ports
\* eventually returns, whatever the peer does.
C4_ScanReturns == (num_threads >= 1) => <>Returned

\* "3.4.1"
Version341 == <<51, 46, 52, 46, 49>>

\* C5: on port 21 the response "220 FTP Server ready 3.4.1\r\n" is reported
\* as service "FTP" with version "3.4.1".
C5_FtpVersion ==
    (21 \in DOMAIN task /\ task[21].pc = "done" /\ task[21].data = FtpBanner)
        => /\ task[21].out[1].service = Some("FTP")
           /\ task[21].out[1].version = Some(Version341)

\* C6: for start_port <= end_port one unit is scheduled per port of the range
\* and both printed counts equal end_port - start_port + 1, without a panic.
C6_CountsExact ==
    start_port <= end_port =>
        /\ pc # "panicked"
        /\ Returned => yielded = end_port - start_port + 1
        /\ printed_total # None => printed_total = Some(end_port - start_port + 1)
        /\ printed_summary # None => printed_summary = Some(end_port - start_port + 1)

\* C7: when start_port > end_port no unit is scheduled, no connection is
\* attempted, the results stay empty and the run does not panic.
C7_ReversedRangeCompletes ==
    start_port > end_port =>
        /\ yielded = 0
        /\ task = << >>
        /\ results = << >>
        /\ pc # "panicked"

\* C8: with a cap of 0 and a non-empty range the scan is never left waiting
\* with no task in flight and nothing it can do, and never has more than one
\* task in flight.
C8_ZeroCapAsOne ==
    (num_threads = 0 /\ start_port <= end_port /\ pc = "stream") =>
        /\ InFlight # {} \/ ENABLED Next
        /\ Cardinality(InFlight) <= 1

\* the ports with a non-empty probe, and the ports with a matcher
ProbePorts == {port \in Ports : service_probe(port) # << >>}
MatcherPorts == {port \in Ports : matcher(port) # "none"}

\* C9: the probe match and the matcher match have arms for the same ports,
\* the twenty of TablePorts; a task of any other port writes the empty probe
\* and reports service "Unknown" without a version whatever it received.
C9_SameKeys ==
    /\ ProbePorts = TablePorts
    /\ MatcherPorts = TablePorts
    /\ \A p \in DOMAIN task :
          /\ task[p].probe # None => ((task[p].probe[1] # << >>) <=> (p \in TablePorts))
          /\ (task[p].out # None /\ p \notin TablePorts)
                => task[p].out = Some(ScanResult(p, Unknown))

\* C9 witness: a task of a port outside the table has written the empty
\* probe, received a banner and reported "Unknown"
C9_UnlistedPortDone ==
    \E p \in DOMAIN task :
        /\ p \notin TablePorts
        /\ task[p].probe = Some(<< >>)
        /\ task[p].data = FtpBanner
        /\ task[p].out = Some(ScanResult(p, Unknown))

\* the operations of a task that connected, in the order of scan_port
FullOrder == <<"connect", "write", "read", "dispatch", "result">>

IsPrefix(a, b) == Len(a) <= Len(b) /\ SubSeq(b, 1, Len(a)) = a

\* C10: the operations of a task follow the order connect, write, read,
\* dispatch, result, each at most once; a task that completed after a
\* successful connect has issued all of them, whether or not the write
\* succeeded, and a task whose connect failed has issued the connect only.
C10_OpsOrdered ==
    \A p \in DOMAIN task :
        /\ IsPrefix(ops[p], FullOrder)
        /\ ~task[p].connected => Len(ops[p]) <= 1
        /\ task[p].pc = "done" =>
              ops[p] = (IF task[p].connected THEN FullOrder ELSE <<"connect">>)

\* C10 witness: a task completed after a failed write, with every operation
\* issued once and in order
C10_FailedWriteCompleted ==
    \E p \in DOMAIN task :
        /\ task[p].pc = "done"
        /\ task[p].write_ok = Some(FALSE)
        /\ ops[p] = FullOrder

====
